---- MODULE Spec2Model ----
(***************************************************************************)
(* Model of src/src/lib.rs: Point, the lazily initialised Vector and the   *)
(* lazily initialised Triangle.                                            *)
(*                                                                         *)
(* f32 values are modelled as binary fixed-point numbers with FracBits     *)
(* fraction bits (a finite value is an integer count of units of           *)
(* 2^-FracBits), together with the IEEE-754 special values NaN, +Inf and   *)
(* -Inf.  Arithmetic rounds to nearest, ties to even, overflows to an      *)
(* infinity above FMax, underflows to zero, and follows the IEEE rules for *)
(* the special values (0/0 = NaN, x/0 = Inf, Inf-Inf = NaN, ...).          *)
(* Option<f32> is modelled as a sequence: << >> is None, <<f>> is Some(f). *)
(***************************************************************************)
EXTENDS Integers, Sequences, FiniteSets, TLC

(***************************************************************************)
(* f32                                                                     *)
(***************************************************************************)
FracBits == 14

Scale == 2 ^ FracBits

\* largest finite magnitude (stands for f32::MAX); above it a result is Inf
FMax == 1024

MaxUnits == FMax * Scale

Fin(u) == [k |-> "fin", u |-> u]

NaN == [k |-> "nan", u |-> 0]

Inf(s) == [k |-> "inf", u |-> s]

\* the f32 literal n.0
FromInt(n) == Fin(n * Scale)

IsNaN(f) == f.k = "nan"

IsInf(f) == f.k = "inf"

IsFin(f) == f.k = "fin"

Abs(n) == IF n < 0 THEN -n ELSE n

Sgn(n) == IF n < 0 THEN -1 ELSE 1

\* sign of a float that is not NaN (zero counts as positive)
FSign(f) == IF IsInf(f) THEN f.u ELSE Sgn(f.u)

\* a finite result, or the infinity it overflows to
Overflow(u) ==
    IF u > MaxUnits THEN Inf(1)
    ELSE IF u < -MaxUnits THEN Inf(-1)
    ELSE Fin(u)

\* round to nearest, ties to even: 1 when quotient q with remainder
\* twiceRem/2 out of divisor d rounds up
RoundUp(q, twiceRem, d) ==
    IF twiceRem > d \/ (twiceRem = d /\ q % 2 = 1) THEN 1 ELSE 0

FNeg(a) ==
    IF IsNaN(a) THEN NaN
    ELSE IF IsInf(a) THEN Inf(-a.u)
    ELSE Fin(-a.u)

\* a + b
FAdd(a, b) ==
    IF IsNaN(a) \/ IsNaN(b) THEN NaN
    ELSE IF IsInf(a) /\ IsInf(b) THEN (IF a.u = b.u THEN a ELSE NaN)
    ELSE IF IsInf(a) THEN a
    ELSE IF IsInf(b) THEN b
    ELSE Overflow(a.u + b.u)

\* a - b
FSub(a, b) == FAdd(a, FNeg(b))

\* the quotient q of a product by Scale, rounded by its remainder lo
MulNearest(q, lo) == q + RoundUp(q, 2 * lo, Scale)

\* x * y in units for magnitudes x, y >= 0, rounded; MaxUnits + 1 on
\* overflow.  The operands are split at the binary point so that no
\* intermediate product is wider than the result.
MulRound(x, y) ==
    IF (x \div Scale) * (y \div Scale) > FMax THEN MaxUnits + 1
    ELSE MulNearest((x \div Scale) * (y \div Scale) * Scale
                        + (x \div Scale) * (y % Scale)
                        + (x % Scale) * (y \div Scale)
                        + (((x % Scale) * (y % Scale)) \div Scale),
                    ((x % Scale) * (y % Scale)) % Scale)

\* a * b
FMul(a, b) ==
    IF IsNaN(a) \/ IsNaN(b) THEN NaN
    ELSE IF IsInf(a) \/ IsInf(b)
         THEN (IF (IsFin(a) /\ a.u = 0) \/ (IsFin(b) /\ b.u = 0)
               THEN NaN
               ELSE Inf(FSign(a) * FSign(b)))
    ELSE Overflow(Sgn(a.u) * Sgn(b.u) * MulRound(Abs(a.u), Abs(b.u)))

RECURSIVE LongDiv(_, _, _, _)
\* binary long division: i more quotient bits of r / y appended to q
LongDiv(r, y, q, i) ==
    IF i = 0 THEN q + RoundUp(q, 2 * r, y)
    ELSE IF 2 * r >= y THEN LongDiv(2 * r - y, y, 2 * q + 1, i - 1)
    ELSE LongDiv(2 * r, y, 2 * q, i - 1)

\* x / y in units for magnitudes x >= 0, y > 0; MaxUnits + 1 on overflow
DivRound(x, y) ==
    IF x \div y > FMax THEN MaxUnits + 1
    ELSE LongDiv(x % y, y, x \div y, FracBits)

\* a / b
FDiv(a, b) ==
    IF IsNaN(a) \/ IsNaN(b) THEN NaN
    ELSE IF IsInf(a) THEN (IF IsInf(b) THEN NaN ELSE Inf(FSign(a) * FSign(b)))
    ELSE IF IsInf(b) THEN Fin(0)
    ELSE IF b.u = 0 THEN (IF a.u = 0 THEN NaN ELSE Inf(Sgn(a.u)))
    ELSE Overflow(Sgn(a.u) * Sgn(b.u) * DivRound(Abs(a.u), Abs(b.u)))

\* a == b on f32 (PartialEq: NaN equals nothing)
FEq(a, b) == ~IsNaN(a) /\ ~IsNaN(b) /\ a = b

\* a.powf(2.0)
FPowf2(a) == IF IsInf(a) THEN Inf(1) ELSE FMul(a, a)

\* r * r = SqHigh(r) * Scale + SqLow(r), for r >= 0, without forming the
\* wide product
SqHigh(r) ==
    (r \div Scale) * (r \div Scale) * Scale + 2 * (r \div Scale) * (r % Scale)
        + (((r % Scale) * (r % Scale)) \div Scale)

SqLow(r) == ((r % Scale) * (r % Scale)) % Scale

\* r * r <= u * Scale, for r, u >= 0
SqLeq(r, u) == SqHigh(r) < u \/ (SqHigh(r) = u /\ SqLow(r) = 0)

RECURSIVE SqrtBits(_, _, _)
\* bit-by-bit square root: the largest r + (bits below 2*bit) with r*r <= u*Scale
SqrtBits(u, r, bit) ==
    IF bit = 0 THEN r
    ELSE IF SqLeq(r + bit, u) THEN SqrtBits(u, r + bit, bit \div 2)
    ELSE SqrtBits(u, r, bit \div 2)

\* the root r rounded down, or r + 1 when u * Scale is nearer to (r + 1)^2
SqrtNearest(u, r) ==
    IF (u - SqHigh(r)) * Scale - SqLow(r) > r THEN r + 1 ELSE r

\* sqrt(u / Scale) in units, rounded to nearest, for u >= 0
SqrtRound(u) == SqrtNearest(u, SqrtBits(u, 0, 2 ^ 19))

\* a.sqrt()
FSqrt(a) ==
    IF IsNaN(a) THEN NaN
    ELSE IF IsInf(a) THEN (IF a.u = 1 THEN a ELSE NaN)
    ELSE IF a.u < 0 THEN NaN
    ELSE Fin(SqrtRound(a.u))

\* std::f32::consts::PI
PI == 51472

\* fraction bits of the angle accumulated inside atan
AngleBits == 22

\* atan(2^-i) for i = 0 .. AngleBits, in units of 2^-AngleBits
AtanTable ==
    <<3294199, 1944679, 1027515, 521583, 261803, 131029, 65531, 32767, 16384,
      8192, 4096, 2048, 1024, 512, 256, 128, 64, 32, 16, 8, 4, 2, 1>>

RECURSIVE Cordic(_, _, _, _)
\* CORDIC in vectoring mode: rotates (x, y) onto the x axis and returns the
\* accumulated angle atan(y / x), for x > 0
Cordic(x, y, z, i) ==
    IF i > AngleBits \/ y = 0 THEN z
    ELSE IF y > 0
         THEN Cordic(x + (y \div (2 ^ i)), y - (x \div (2 ^ i)), z + AtanTable[i + 1], i + 1)
         ELSE Cordic(x - (y \div (2 ^ i)), y + (x \div (2 ^ i)), z - AtanTable[i + 1], i + 1)

RECURSIVE Normalized(_, _)
\* atan(y / x) for x > 0, y >= 0, after scaling both to use the full width
Normalized(x, y) ==
    IF x <= 2 ^ 27 /\ y <= 2 ^ 27 THEN Normalized(2 * x, 2 * y)
    ELSE Cordic(x, y, 0, 0)

\* atan(y / x) in units for magnitudes x > 0, y >= 0, rounded to nearest
Atan2Units(y, x) ==
    (Normalized(x, y) + 2 ^ (AngleBits - FracBits - 1)) \div (2 ^ (AngleBits - FracBits))

\* a.atan()
FAtan(a) ==
    IF IsNaN(a) THEN NaN
    ELSE IF IsInf(a) THEN Fin(a.u * (PI \div 2))
    ELSE Fin(Sgn(a.u) * Atan2Units(Abs(a.u), Scale))

\* acos(c / Scale) in units for -Scale <= c <= Scale, given the sine s
AcosUnits(c, s) ==
    IF c = 0 THEN PI \div 2
    ELSE IF c > 0 THEN Atan2Units(s, c)
    ELSE PI - Atan2Units(s, -c)

\* a.acos()
FAcos(a) ==
    IF IsNaN(a) \/ IsInf(a) THEN NaN
    ELSE IF Abs(a.u) > Scale THEN NaN
    ELSE Fin(AcosUnits(a.u, SqrtRound(Scale - MulRound(Abs(a.u), Abs(a.u)))))

\* radians to degrees as the source writes it: r * 180 / PI
ToDegrees(r) == FDiv(FMul(r, FromInt(180)), Fin(PI))

(***************************************************************************)
(* Option<f32>                                                             *)
(***************************************************************************)
None == << >>

Some(f) == <<f>>

\* the result of a method call: the receiver after the call, the value
\* returned (None for a unit method, and for a call that panicked) and
\* whether the call panicked
Returned(self, f) == [self |-> self, ret |-> Some(f), panic |-> FALSE]

\* self.field.unwrap() as the last expression of a method
Unwrap(self, field) ==
    [self |-> self, ret |-> self[field], panic |-> self[field] = None]

(***************************************************************************)
(* Point and the inputs of the model                                       *)
(***************************************************************************)
Point(x, y) == [x |-> x, y |-> y]

\* the largest small integer coordinate
MaxCoord == 3

\* a finite coordinate whose square overflows
Big == 40

\* the smallest positive value (its square underflows to zero)
Tiny == Fin(1)

Coords == {FromInt(0), FromInt(1), FromInt(MaxCoord), FromInt(Big), Tiny, Inf(1)}

Points == {Point(x, y) : x \in Coords, y \in Coords}

(***************************************************************************)
(* Vector                                                                  *)
(***************************************************************************)
Vector_new(point_a, point_b) ==
    [point_a |-> point_a, point_b |-> point_b,
     length |-> None, alpha |-> None, beta |-> None]

\* lines 59-60: self.length = Some(hypotenuse); hypotenuse
Vector_length_store(self, hypotenuse) ==
    Returned([self EXCEPT !.length = Some(hypotenuse)], hypotenuse)

\* lines 56-58: the hypotenuse over the legs opposite and adjacent
Hypotenuse(opposite, adjacent) ==
    FSqrt(FAdd(FPowf2(opposite), FPowf2(adjacent)))

\* mutant: a cache hit takes the value out of the field (Option::take)
Vector_length_take(self) ==
    IF self.length # None
    THEN Returned([self EXCEPT !.length = None], self.length[1])
    ELSE Vector_length_store(self,
             Hypotenuse(FSub(self.point_a.x, self.point_b.x),
                        FSub(self.point_a.y, self.point_b.y)))

\* the squared length is cached, its root is returned
StoreSquare(self, square) ==
    Returned([self EXCEPT !.length = Some(square)], FSqrt(square))

\* mutant: the squared length is cached, the root is returned
Vector_length_cache_square(self) ==
    IF self.length # None THEN Returned(self, self.length[1])
    ELSE StoreSquare(self,
             FAdd(FPowf2(FSub(self.point_a.x, self.point_b.x)),
                  FPowf2(FSub(self.point_a.y, self.point_b.y))))

\* mutant: opposite is not squared
Vector_length_opposite_unsquared(self) ==
    IF self.length # None THEN Returned(self, self.length[1])
    ELSE Vector_length_store(self,
             FSqrt(FAdd(FSub(self.point_a.x, self.point_b.x),
                        FPowf2(FSub(self.point_a.y, self.point_b.y)))))

\* mutant: adjacent is taken from the x coordinates too
Vector_length_adjacent_from_x(self) ==
    IF self.length # None THEN Returned(self, self.length[1])
    ELSE Vector_length_store(self,
             Hypotenuse(FSub(self.point_a.x, self.point_b.x),
                        FSub(self.point_a.x, self.point_b.x)))

Vector_length(self) ==
    IF self.length # None THEN Returned(self, self.length[1])
    ELSE Vector_length_store(self,
             Hypotenuse(FSub(self.point_a.x, self.point_b.x),
                        FSub(self.point_a.y, self.point_b.y)))

\* Vector::new(a, b).length(), the distance from a to b
distance(a, b) == Vector_length(Vector_new(a, b)).ret[1]

\* mutant: beta is computed but not stored
Vector_set_alpha_beta_store_alpha_only(self, beta) ==
    [self EXCEPT !.alpha = Some(FSub(FromInt(90), beta))]

\* lines 72-73: self.alpha = Some(90 - beta); self.beta = Some(beta)
Vector_set_alpha_beta_store(self, beta) ==
    [self EXCEPT !.alpha = Some(FSub(FromInt(90), beta)), !.beta = Some(beta)]

\* mutant: a zero adjacent is guarded and gives the angle 0
Beta_guarded(opposite, adjacent) ==
    IF adjacent = FromInt(0) THEN FromInt(0)
    ELSE ToDegrees(FAtan(FDiv(FPowf2(opposite), FPowf2(adjacent))))

\* mutant: a zero-length vector gets the default angle 0
Beta_default(opposite, adjacent) ==
    IF opposite = FromInt(0) /\ adjacent = FromInt(0) THEN FromInt(0)
    ELSE ToDegrees(FAtan(FDiv(FPowf2(opposite), FPowf2(adjacent))))

\* mutant: the standard formula, atan(opposite / adjacent)
Beta_standard(opposite, adjacent) ==
    ToDegrees(FAtan(FDiv(opposite, adjacent)))

\* lines 70-71: beta over the legs opposite and adjacent
Beta(opposite, adjacent) ==
    ToDegrees(FAtan(FDiv(FPowf2(opposite), FPowf2(adjacent))))

\* alpha is taken from a straight angle
Store180(self, beta) ==
    [self EXCEPT !.alpha = Some(FSub(FromInt(180), beta)), !.beta = Some(beta)]

\* mutant: alpha is taken from a straight angle
Vector_set_alpha_beta_180(self) ==
    Store180(self, Beta(FSub(self.point_a.x, self.point_b.x),
                        FSub(self.point_a.y, self.point_b.y)))

\* mutant: the legs are not squared before the division
Vector_set_alpha_beta_unsquared(self) ==
    Vector_set_alpha_beta_store(self,
        ToDegrees(FAtan(FDiv(FSub(self.point_a.x, self.point_b.x),
                             FSub(self.point_a.y, self.point_b.y)))))

\* returns the receiver after the call
Vector_set_alpha_beta(self) ==
    Vector_set_alpha_beta_store(self,
        Beta(FSub(self.point_a.x, self.point_b.x),
             FSub(self.point_a.y, self.point_b.y)))

\* mutant: init() forgets the angles
Vector_init_length_only(self) == Vector_length(self).self

\* returns the receiver after the call
Vector_init(self) == Vector_set_alpha_beta(Vector_length(self).self)

Vector_new_initialized(point_a, point_b) ==
    Vector_init(Vector_new(point_a, point_b))

Vector_alpha(self) ==
    IF self.alpha # None THEN Returned(self, self.alpha[1])
    ELSE Unwrap(Vector_set_alpha_beta(self), "alpha")

Vector_beta(self) ==
    IF self.beta # None THEN Returned(self, self.beta[1])
    ELSE Unwrap(Vector_set_alpha_beta(self), "beta")

(***************************************************************************)
(* Triangle                                                                *)
(***************************************************************************)
Triangle_new(point_a, point_b, point_c) ==
    [point_a |-> point_a, point_b |-> point_b, point_c |-> point_c,
     ab |-> None, bc |-> None, ca |-> None,
     alpha |-> None, beta |-> None, gamma |-> None]

\* mutant: ca is measured from point_b to point_c
Triangle_init_lengths_ca_is_bc(self) ==
    [self EXCEPT !.ab = Some(distance(self.point_a, self.point_b)),
                 !.bc = Some(distance(self.point_b, self.point_c)),
                 !.ca = Some(distance(self.point_b, self.point_c))]

\* mutant: ca is left out of the batch
Triangle_init_lengths_without_ca(self) ==
    [self EXCEPT !.ab = Some(distance(self.point_a, self.point_b)),
                 !.bc = Some(distance(self.point_b, self.point_c))]

\* returns the receiver after the call
Triangle_init_lengths(self) ==
    [self EXCEPT !.ab = Some(distance(self.point_a, self.point_b)),
                 !.bc = Some(distance(self.point_b, self.point_c)),
                 !.ca = Some(distance(self.point_c, self.point_a))]

Triangle_get_angle(adj1, adj2, opp) ==
    ToDegrees(FAcos(FDiv(FSub(FAdd(FPowf2(adj1), FPowf2(adj2)), FPowf2(opp)),
                         FMul(FMul(FromInt(2), adj1), adj2))))

Triangle_ab(self) ==
    IF self.ab # None THEN Returned(self, self.ab[1])
    ELSE Unwrap(Triangle_init_lengths(self), "ab")

\* mutant: bc() computes the lengths anew on every call
Triangle_bc_recompute(self) == Unwrap(Triangle_init_lengths(self), "bc")

Triangle_bc(self) ==
    IF self.bc # None THEN Returned(self, self.bc[1])
    ELSE Unwrap(Triangle_init_lengths(self), "bc")

Triangle_ca(self) ==
    IF self.ca # None THEN Returned(self, self.ca[1])
    ELSE Unwrap(Triangle_init_lengths(self), "ca")

\* Triangle::get_angle(r1, r2, r3) on the results of three accessor calls;
\* a panic in an accessor ends the evaluation
AngleFrom(r1, r2, r3) ==
    IF r1.panic THEN [self |-> r1.self, angle |-> None, panic |-> TRUE]
    ELSE IF r2.panic THEN [self |-> r2.self, angle |-> None, panic |-> TRUE]
    ELSE IF r3.panic THEN [self |-> r3.self, angle |-> None, panic |-> TRUE]
    ELSE [self |-> r3.self,
          angle |-> Some(Triangle_get_angle(r1.ret[1], r2.ret[1], r3.ret[1])),
          panic |-> FALSE]

\* self.ab(), self.bc() or self.ca(): the accessor named side
Side(self, side) ==
    CASE side = "ab" -> Triangle_ab(self)
      [] side = "bc" -> Triangle_bc(self)
      [] OTHER -> Triangle_ca(self)

\* the third accessor is called on the receiver the second one left
ThirdArg(r1, r2, third) == AngleFrom(r1, r2, Side(r2.self, third))

\* the second accessor is called on the receiver the first one left
SecondArg(r1, second, third) == ThirdArg(r1, Side(r1.self, second), third)

\* Triangle::get_angle(self.first(), self.second(), self.third()): the
\* arguments are evaluated left to right
AngleOf(self, first, second, third) == SecondArg(Side(self, first), second, third)

\* self.field = Some(angle), for the result a of AngleOf
StoreAngle(field, a) ==
    IF a.panic THEN [self |-> a.self, panic |-> TRUE]
    ELSE [self |-> [a.self EXCEPT ![field] = a.angle], panic |-> FALSE]

\* the value a field holds, 0 when it is None
FieldOrZero(o) == IF o = None THEN FromInt(0) ELSE o[1]

\* mutant: the angles are computed from the fields, not through the accessors
Triangle_init_angles_from_fields(self) ==
    [self |-> [self EXCEPT
         !.alpha = Some(Triangle_get_angle(FieldOrZero(self.ab), FieldOrZero(self.ca), FieldOrZero(self.bc))),
         !.beta = Some(Triangle_get_angle(FieldOrZero(self.bc), FieldOrZero(self.ab), FieldOrZero(self.ca))),
         !.gamma = Some(Triangle_get_angle(FieldOrZero(self.ca), FieldOrZero(self.bc), FieldOrZero(self.ab)))],
     panic |-> FALSE]

\* mutant: alpha takes ca for the opposite side
SetAlpha_opposite_ca(self) ==
    StoreAngle("alpha", AngleOf(self, "ab", "bc", "ca"))

\* line 169: self.alpha = Some(get_angle(self.ab(), self.ca(), self.bc()))
SetAlpha(self) ==
    StoreAngle("alpha", AngleOf(self, "ab", "ca", "bc"))

\* line 170: self.beta = Some(get_angle(self.bc(), self.ab(), self.ca())),
\* for the result r of the statement before
SetBeta(r) ==
    IF r.panic THEN r
    ELSE StoreAngle("beta", AngleOf(r.self, "bc", "ab", "ca"))

\* line 171: self.gamma = Some(get_angle(self.ca(), self.bc(), self.ab())),
\* for the result r of the statement before
SetGamma(r) ==
    IF r.panic THEN r
    ELSE StoreAngle("gamma", AngleOf(r.self, "ca", "bc", "ab"))

\* returns the receiver after the call and whether the call panicked
Triangle_init_angles(self) == SetGamma(SetBeta(SetAlpha(self)))

\* mutant: init() stops after the lengths
Triangle_init_without_angles(self) ==
    [self |-> Triangle_init_lengths(self), panic |-> FALSE]

\* returns the receiver after the call and whether the call panicked
Triangle_init(self) == Triangle_init_angles(Triangle_init_lengths(self))

\* the constructed Triangle and whether the construction panicked
Triangle_new_initialized(point_a, point_b, point_c) ==
    Triangle_init(Triangle_new(point_a, point_b, point_c))

\* o.unwrap() after self.init_angles() returned r
UnwrapAngle(r, field) ==
    IF r.panic THEN [self |-> r.self, ret |-> None, panic |-> TRUE]
    ELSE Unwrap(r.self, field)

Triangle_alpha(self) ==
    IF self.alpha # None THEN Returned(self, self.alpha[1])
    ELSE UnwrapAngle(Triangle_init_angles(self), "alpha")

\* mutant: beta() computes and stores its own angle only
Triangle_beta_alone(self) ==
    IF self.beta # None THEN Returned(self, self.beta[1])
    ELSE UnwrapAngle(SetBeta([self |-> self, panic |-> FALSE]), "beta")

Triangle_beta(self) ==
    IF self.beta # None THEN Returned(self, self.beta[1])
    ELSE UnwrapAngle(Triangle_init_angles(self), "beta")

Triangle_gamma(self) ==
    IF self.gamma # None THEN Returned(self, self.gamma[1])
    ELSE UnwrapAngle(Triangle_init_angles(self), "gamma")

\* the points the Triangle runs draw from: a right triangle, a point
\* collinear with two of its corners, and a point at infinity
TriPoints ==
    {Point(FromInt(0), FromInt(0)), Point(FromInt(MaxCoord), FromInt(0)),
     Point(FromInt(0), FromInt(MaxCoord)), Point(FromInt(0), FromInt(1)),
     Point(Inf(1), FromInt(0))}

(***************************************************************************)
(* State                                                                   *)
(***************************************************************************)
VARIABLES
    v,        \* the Vector under observation (None in the Triangle runs)
    t,        \* the Triangle under observation (None in the Vector runs)
    op,       \* the constructor or method called last
    ret,      \* what the last call returned: None or Some(f32)
    panic,    \* a call has panicked
    before,   \* the derived fields that were Computed when the last call began
    calls,    \* Vector runs: the constructor and the methods called so far
    again,    \* Vector runs: the method called last had been called before
    returned  \* Vector runs: every <<method, value>> returned so far

vars == <<v, t, op, ret, panic, before, calls, again, returned>>

\* the derived fields of a Vector, and of a Triangle
VFields == {"length", "alpha", "beta"}

TFields == {"ab", "bc", "ca", "alpha", "beta", "gamma"}

\* the fields among fs that are Computed in object o
Computed(o, fs) == {f \in fs : o[f] # None}

\* the bookkeeping of a call of Vector method m that produced result r
Observe(m, r) ==
    /\ op' = m
    /\ before' = Computed(v, VFields)
    /\ ret' = r.ret
    /\ panic' = r.panic
    /\ calls' = calls \cup {m}
    /\ again' = (m \in calls)
    /\ returned' = IF r.ret = None THEN returned
                   ELSE returned \cup {<<m, r.ret[1]>>}

(***************************************************************************)
(* Vector runs: a caller constructs a Vector and calls its public methods  *)
(***************************************************************************)
InitV ==
    /\ \E a \in Points, b \in Points :
          \/ v = Vector_new(a, b) /\ op = "new"
          \/ v = Vector_new_initialized(a, b) /\ op = "new_initialized"
    /\ t = None
    /\ ret = None
    /\ panic = FALSE
    /\ before = {}
    /\ calls = {op}
    /\ again = FALSE
    /\ returned = {}

VecInit ==
    /\ v # None /\ ~panic
    /\ v' = Vector_init(v)
    /\ Observe("init", [ret |-> None, panic |-> FALSE])
    /\ UNCHANGED t

VecLength ==
    /\ v # None /\ ~panic
    /\ v' = Vector_length(v).self
    /\ Observe("length", Vector_length(v))
    /\ UNCHANGED t

VecAlpha ==
    /\ v # None /\ ~panic
    /\ v' = Vector_alpha(v).self
    /\ Observe("alpha", Vector_alpha(v))
    /\ UNCHANGED t

VecBeta ==
    /\ v # None /\ ~panic
    /\ v' = Vector_beta(v).self
    /\ Observe("beta", Vector_beta(v))
    /\ UNCHANGED t

NextV == VecInit \/ VecLength \/ VecAlpha \/ VecBeta

SpecV == InitV /\ [][NextV]_vars

(***************************************************************************)
(* Triangle runs: a caller constructs a Triangle, calls its public methods *)
(* and assigns its public fields point_a, point_b, point_c                 *)
(***************************************************************************)
InitT ==
    /\ \E a \in TriPoints, b \in TriPoints, c \in TriPoints :
          \/ t = Triangle_new(a, b, c) /\ op = "new" /\ panic = FALSE
          \/ /\ t = Triangle_new_initialized(a, b, c).self
             /\ op = "new_initialized"
             /\ panic = Triangle_new_initialized(a, b, c).panic
    /\ v = None
    /\ ret = None
    /\ before = {}
    /\ calls = {}
    /\ again = FALSE
    /\ returned = {}

\* the bookkeeping of a call of Triangle method m that produced result r
ObserveT(m, r) ==
    /\ t' = r.self
    /\ op' = m
    /\ ret' = r.ret
    /\ panic' = r.panic
    /\ before' = Computed(t, TFields)
    /\ UNCHANGED <<v, calls, again, returned>>

TriAb == t # None /\ ~panic /\ ObserveT("ab", Triangle_ab(t))

TriBc == t # None /\ ~panic /\ ObserveT("bc", Triangle_bc(t))

TriCa == t # None /\ ~panic /\ ObserveT("ca", Triangle_ca(t))

TriAlpha == t # None /\ ~panic /\ ObserveT("alpha", Triangle_alpha(t))

TriBeta == t # None /\ ~panic /\ ObserveT("beta", Triangle_beta(t))

TriGamma == t # None /\ ~panic /\ ObserveT("gamma", Triangle_gamma(t))

\* a caller assigns one of the pub fields: t.point_a = p, t.point_b = p or
\* t.point_c = p
TriSetPoint ==
    /\ t # None /\ ~panic
    /\ \E field \in {"point_a", "point_b", "point_c"}, p \in TriPoints :
          /\ t[field] # p
          /\ ObserveT("set_point", [self |-> [t EXCEPT ![field] = p],
                                     ret |-> None, panic |-> FALSE])

NextT == TriAb \/ TriBc \/ TriCa \/ TriAlpha \/ TriBeta \/ TriGamma \/ TriSetPoint

SpecT == InitT /\ [][NextT]_vars

(***************************************************************************)
(* Shape runs: a caller constructs a Triangle on corners of one shape, in  *)
(* any order and with repetition, and calls its accessors                  *)
(***************************************************************************)
\* the triangle of test_triangle_from_three_points
TestCorners ==
    {Point(FromInt(4), FromInt(7)), Point(FromInt(12), FromInt(9)),
     Point(FromInt(8), FromInt(12))}

\* a needle: two corners close together, the third far away
NeedleCorners ==
    {Point(FromInt(0), FromInt(0)), Point(FromInt(0), FromInt(1)),
     Point(FromInt(1), FromInt(18))}

\* a right isosceles triangle
RightCorners ==
    {Point(FromInt(0), FromInt(0)), Point(FromInt(3), FromInt(0)),
     Point(FromInt(0), FromInt(3))}

\* three points on a line
LineCorners ==
    {Point(FromInt(0), FromInt(0)), Point(FromInt(0), FromInt(1)),
     Point(FromInt(0), FromInt(3))}

\* two finite points and a point at infinity
FarCorners ==
    {Point(FromInt(0), FromInt(0)), Point(FromInt(3), FromInt(0)),
     Point(Inf(1), FromInt(0))}

Shapes == {TestCorners, NeedleCorners, RightCorners, LineCorners, FarCorners}

InitS ==
    /\ \E shape \in Shapes : \E a \in shape, b \in shape, c \in shape :
          \/ t = Triangle_new(a, b, c) /\ op = "new" /\ panic = FALSE
          \/ /\ t = Triangle_new_initialized(a, b, c).self
             /\ op = "new_initialized"
             /\ panic = Triangle_new_initialized(a, b, c).panic
    /\ v = None
    /\ ret = None
    /\ before = {}
    /\ calls = {}
    /\ again = FALSE
    /\ returned = {}

NextS == TriAb \/ TriBc \/ TriCa \/ TriAlpha \/ TriBeta \/ TriGamma

SpecS == InitS /\ [][NextS]_vars

(***************************************************************************)
(* All runs                                                                *)
(***************************************************************************)
Init == InitV \/ InitT

Next == NextV \/ NextT

Spec == Init /\ [][Next]_vars

(***************************************************************************)
(* Properties of Vector                                                    *)
(***************************************************************************)
FinitePoint(p) == IsFin(p.x) /\ IsFin(p.y)

\* C1: each derived field of a Vector moves only from Unset to Computed,
\* and once Computed its stored value is the same in every later state,
\* whatever accessor or init() is called.
C1_ComputedFieldsNeverChange ==
    [][v # None =>
          /\ (v.length # None => v'.length = v.length)
          /\ (v.alpha # None => v'.alpha = v.alpha)
          /\ (v.beta # None => v'.beta = v.beta)]_vars

\* init() has run on a Vector whose length and angles were already Computed
C1_Witness ==
    /\ v # None /\ op = "init"
    /\ {"new", "length", "alpha"} \subseteq calls
    /\ v.length # None /\ v.alpha # None /\ v.beta # None

\* C2: every call of length() on one Vector returns the same value, and a
\* call of length() leaves alpha, beta, point_a and point_b as they were.
C2_LengthRepeatableAndFramed ==
    [][op' = "length" =>
          /\ v'.alpha = v.alpha /\ v'.beta = v.beta
          /\ v'.point_a = v.point_a /\ v'.point_b = v.point_b
          /\ \A p \in returned' : p[1] = "length" => Some(p[2]) = ret']_vars

\* length() has been called a second time, with the angles cached
C2_Witness ==
    /\ v # None /\ op = "length" /\ again
    /\ v.alpha # None /\ "init" \notin calls

\* C3: Vector::new(a, b) has all derived fields Unset, and once length(),
\* alpha() and beta() have each been called on it, in any order, it equals
\* Vector::new_initialized(a, b) field for field.
C3_EagerEqualsForcedLazy ==
    v # None =>
       /\ (op = "new" => v.length = None /\ v.alpha = None /\ v.beta = None)
       /\ ({"new", "length", "alpha", "beta"} \subseteq calls
              => v = Vector_new_initialized(v.point_a, v.point_b))

\* a lazily constructed Vector on which the three accessors, and only
\* they, have been called
C3_Witness ==
    /\ v # None
    /\ calls = {"new", "length", "alpha", "beta"}
    /\ v.point_a # v.point_b

\* C4 as stated: whenever alpha and beta are Computed, alpha + beta is 90,
\* for every pair of endpoints including point_a = point_b.
C4_Original ==
    (v # None /\ v.alpha # None /\ v.beta # None)
        => FEq(FAdd(v.alpha[1], v.beta[1]), FromInt(90))

\* C4 amended: whenever alpha and beta are Computed, either alpha + beta is
\* 90, or both are NaN; they are NaN exactly when opposite^2 / adjacent^2 is
\* 0/0 or Inf/Inf or has a NaN operand, which includes point_a = point_b.
C4_SumIs90UnlessNaN ==
    (v # None /\ v.alpha # None /\ v.beta # None) =>
        LET o2 == FPowf2(FSub(v.point_a.x, v.point_b.x))
            a2 == FPowf2(FSub(v.point_a.y, v.point_b.y))
            undefined == \/ IsNaN(o2) \/ IsNaN(a2)
                         \/ (IsInf(o2) /\ IsInf(a2))
                         \/ (o2 = FromInt(0) /\ a2 = FromInt(0))
        IN  /\ (v.point_a = v.point_b => undefined)
            /\ IF undefined
               THEN IsNaN(v.alpha[1]) /\ IsNaN(v.beta[1])
               ELSE FEq(FAdd(v.alpha[1], v.beta[1]), FromInt(90))

\* the angles of a Vector whose distinct endpoints share their y coordinate
C4_Witness ==
    /\ v # None /\ v.alpha # None /\ v.beta # None
    /\ v.point_a.y = v.point_b.y /\ v.point_a.x # v.point_b.x
    /\ FinitePoint(v.point_a) /\ FinitePoint(v.point_b)
    /\ op = "alpha" /\ ret = Some(FromInt(0)) /\ v.beta[1] = FromInt(90)

\* C5 as stated: for all points a, b the distance from a to b equals the
\* distance from b to a, and the distance from a point to itself is 0.
C5_Original ==
    (v # None /\ v.length # None) =>
        /\ FEq(v.length[1], distance(v.point_b, v.point_a))
        /\ (v.point_a = v.point_b => FEq(v.length[1], FromInt(0)))

\* C5 amended: for all points a, b with finite coordinates the distance
\* from a to b equals the distance from b to a, and the distance from a
\* point with finite coordinates to itself is 0.
C5_FiniteDistanceSymmetric ==
    (v # None /\ v.length # None
       /\ FinitePoint(v.point_a) /\ FinitePoint(v.point_b)) =>
        /\ FEq(v.length[1], distance(v.point_b, v.point_a))
        /\ (v.point_a = v.point_b => FEq(v.length[1], FromInt(0)))

\* length() has returned a positive finite distance between finite points
\* that differ in x
C5_Witness ==
    /\ v # None /\ op = "length" /\ ret = v.length
    /\ FinitePoint(v.point_a) /\ FinitePoint(v.point_b)
    /\ v.point_a.x.u < v.point_b.x.u
    /\ IsFin(ret[1]) /\ ret[1].u > 0

\* n.0 for an integer 0 <= n <= MaxCoord
IsSmallInt(f) == IsFin(f) /\ f.u % Scale = 0 /\ f.u \div Scale \in 0 .. MaxCoord

\* C6: length() on a Vector whose length is Unset stores and returns
\* sqrt(opposite^2 + adjacent^2) with opposite = point_a.x - point_b.x and
\* adjacent = point_a.y - point_b.y; for small integer coordinates the square
\* of the result is opposite^2 + adjacent^2 up to rounding, and for
\* a = (1,3), b = (3,1) the result is sqrt(8).
C6_LengthIsHypotenuse ==
    (v # None /\ v.length # None) =>
        LET opposite == FSub(v.point_a.x, v.point_b.x)
            adjacent == FSub(v.point_a.y, v.point_b.y)
            len == v.length[1]
        IN  /\ len = FSqrt(FAdd(FMul(opposite, opposite), FMul(adjacent, adjacent)))
            /\ (op = "length" => ret = v.length)
            /\ (IsSmallInt(v.point_a.x) /\ IsSmallInt(v.point_a.y)
                /\ IsSmallInt(v.point_b.x) /\ IsSmallInt(v.point_b.y)) =>
                  LET dx == (v.point_a.x.u - v.point_b.x.u) \div Scale
                      dy == (v.point_a.y.u - v.point_b.y.u) \div Scale
                      n == dx * dx + dy * dy
                  IN  /\ IsFin(len) /\ len.u >= 0
                      /\ Abs(FMul(len, len).u - n * Scale) <= (len.u \div Scale) + 2
                      /\ (dx = 0 => len.u = Abs(dy) * Scale)
                      /\ (dy = 0 => len.u = Abs(dx) * Scale)
            /\ (v.point_a = Point(FromInt(1), FromInt(3))
                /\ v.point_b = Point(FromInt(3), FromInt(1))
                  => len = FSqrt(FromInt(8)))

\* length() has computed the length of a Vector with small integer
\* endpoints that differ by the same nonzero amount in x and in y
C6_Witness ==
    /\ v # None /\ op = "length" /\ ~again /\ calls = {"new", "length"}
    /\ v.point_a = Point(FromInt(1), FromInt(MaxCoord))
    /\ v.point_b = Point(FromInt(MaxCoord), FromInt(1))
    /\ ret = v.length /\ IsFin(ret[1]) /\ ret[1].u > 2 * Scale

\* C7 as stated: the angles are beta = atan(opposite^2 / adjacent^2) in
\* degrees and alpha = 90 - beta, and whenever |opposite| == |adjacent| != 0
\* alpha() returns 45.
C7_Original ==
    (v # None /\ v.alpha # None /\ v.beta # None) =>
        LET opposite == FSub(v.point_a.x, v.point_b.x)
            adjacent == FSub(v.point_a.y, v.point_b.y)
            absOpp == IF FSign(opposite) < 0 THEN FNeg(opposite) ELSE opposite
            absAdj == IF FSign(adjacent) < 0 THEN FNeg(adjacent) ELSE adjacent
        IN  /\ v.beta[1] = ToDegrees(FAtan(FDiv(FMul(opposite, opposite),
                                                 FMul(adjacent, adjacent))))
            /\ v.alpha[1] = FSub(FromInt(90), v.beta[1])
            /\ (FEq(absOpp, absAdj) /\ ~FEq(absOpp, FromInt(0))
                  => FEq(v.alpha[1], FromInt(45)))

\* C7 amended: the angles are beta = atan(opposite^2 / adjacent^2) in
\* degrees and alpha = 90 - beta, and whenever opposite^2 and adjacent^2 are
\* equal, finite and nonzero (as for a = (1,3), b = (3,1)) alpha() returns 45.
C7_AnglesFromSquaredLegs ==
    (v # None /\ v.alpha # None /\ v.beta # None) =>
        LET opposite == FSub(v.point_a.x, v.point_b.x)
            adjacent == FSub(v.point_a.y, v.point_b.y)
            o2 == FMul(opposite, opposite)
            a2 == FMul(adjacent, adjacent)
        IN  /\ v.beta[1] = ToDegrees(FAtan(FDiv(o2, a2)))
            /\ v.alpha[1] = FSub(FromInt(90), v.beta[1])
            /\ (op \in {"alpha", "beta"} => ret = v[op])
            /\ (FEq(o2, a2) /\ IsFin(o2) /\ o2.u # 0
                  => FEq(v.alpha[1], FromInt(45)))

\* alpha() has computed 45 for a Vector from (1, MaxCoord) to (MaxCoord, 1)
C7_Witness ==
    /\ v # None /\ op = "alpha" /\ ~again /\ calls = {"new", "alpha"}
    /\ v.point_a = Point(FromInt(1), FromInt(MaxCoord))
    /\ v.point_b = Point(FromInt(MaxCoord), FromInt(1))
    /\ ret = Some(FromInt(45)) /\ v.beta = Some(FromInt(45))

(***************************************************************************)
(* Properties of Vector and Triangle                                       *)
(***************************************************************************)
\* C8: no public operation of Vector or Triangle panics, for any input and
\* from any reachable state; every accessor returns a value: the field it
\* unwraps after the batch computation is Computed.
C8_NoPanic ==
    /\ ~panic
    /\ (op \in VFields \cup TFields => ret # None)
    /\ (v # None /\ op \in VFields => ret = v[op])
    /\ (t # None /\ op \in TFields => ret = t[op])

\* gamma() has computed the angles of a Triangle with two coincident
\* points and unwrapped the field
C8_Witness ==
    /\ t # None /\ op = "gamma" /\ before = {}
    /\ t.point_a = t.point_b /\ t.point_b # t.point_c
    /\ ~panic /\ ret = t.gamma /\ ret # None /\ IsNaN(t.alpha[1])

(***************************************************************************)
(* Properties of Triangle                                                  *)
(***************************************************************************)
LengthsUnset(tr) == tr.ab = None /\ tr.bc = None /\ tr.ca = None

LengthsComputed(tr) == tr.ab # None /\ tr.bc # None /\ tr.ca # None

AnglesUnset(tr) == tr.alpha = None /\ tr.beta = None /\ tr.gamma = None

AnglesComputed(tr) == tr.alpha # None /\ tr.beta # None /\ tr.gamma # None

\* the lengths of tr are the distances between the points of tr0
LengthsOf(tr, tr0) ==
    /\ tr.ab = Some(distance(tr0.point_a, tr0.point_b))
    /\ tr.bc = Some(distance(tr0.point_b, tr0.point_c))
    /\ tr.ca = Some(distance(tr0.point_c, tr0.point_a))

\* C9: in every state ab, bc, ca are all Unset or all Computed, and a call
\* of ab(), bc() or ca() while a member of the group is Unset leaves all
\* three Computed with ab = distance(point_a, point_b),
\* bc = distance(point_b, point_c), ca = distance(point_c, point_a).
C9_LengthsAsBatch ==
    [][t # None =>
          /\ LengthsUnset(t) \/ LengthsComputed(t)
          /\ LengthsUnset(t') \/ LengthsComputed(t')
          /\ (op' \in {"ab", "bc", "ca"} /\ ~LengthsComputed(t))
                => LengthsOf(t', t) /\ ret' = t'[op']]_vars

\* bc() has computed the lengths of a fresh Triangle with three distinct
\* finite points
C9_Witness ==
    /\ t # None /\ op = "bc" /\ before = {}
    /\ t.point_a # t.point_b /\ t.point_b # t.point_c /\ t.point_c # t.point_a
    /\ LengthsComputed(t) /\ AnglesUnset(t)
    /\ ret = t.bc /\ IsFin(t.ca[1]) /\ t.ca[1].u > 0

\* C10: in every state alpha, beta, gamma are all Unset or all Computed,
\* and when they are Computed so are ab, bc, ca: a call of alpha(), beta()
\* or gamma() on a Triangle with Unset lengths computes the lengths first
\* and leaves all six fields Computed.
C10_AnglesAfterLengths ==
    [][t # None =>
          /\ AnglesUnset(t) \/ (AnglesComputed(t) /\ LengthsComputed(t))
          /\ AnglesUnset(t') \/ (AnglesComputed(t') /\ LengthsComputed(t'))
          /\ (op' \in {"alpha", "beta", "gamma"} /\ LengthsUnset(t))
                => /\ LengthsOf(t', t)
                   /\ AnglesComputed(t')
                   /\ t'.alpha = Some(Triangle_get_angle(t'.ab[1], t'.ca[1], t'.bc[1]))
                   /\ ret' = t'[op']]_vars

\* beta() has been called on a fresh Triangle, whose lengths were Unset
C10_Witness ==
    /\ t # None /\ op = "beta" /\ before = {}
    /\ t.point_a # t.point_b /\ t.point_b # t.point_c /\ t.point_c # t.point_a
    /\ LengthsComputed(t) /\ AnglesComputed(t)
    /\ ret = t.beta /\ IsFin(ret[1]) /\ ret[1].u > 0

\* the angle in tenths of a degree, rounded half away from zero
Tenths(f) == (f.u * 10 + Scale \div 2) \div Scale

\* acos((adj1^2 + adj2^2 - opp^2) / (2 * adj1 * adj2)) in degrees
LawOfCosines(adj1, adj2, opp) ==
    FDiv(FMul(FAcos(FDiv(FSub(FAdd(FMul(adj1, adj1), FMul(adj2, adj2)),
                              FMul(opp, opp)),
                         FMul(FMul(FromInt(2), adj1), adj2))),
              FromInt(180)),
         Fin(PI))

\* the angles of the test triangle at its corners, in tenths of a degree
TestTenths(p) ==
    CASE p = Point(FromInt(4), FromInt(7)) -> 373
      [] p = Point(FromInt(12), FromInt(9)) -> 509
      [] OTHER -> 918

\* the angles of the right isosceles triangle at its corners, in tenths
RightTenths(p) == IF p = Point(FromInt(0), FromInt(0)) THEN 900 ELSE 450

\* C11: each Computed angle of a Triangle is the law-of-cosines angle of
\* its sides, alpha from adjacent ab, ca and opposite bc, beta from
\* adjacent bc, ab and opposite ca, gamma from adjacent ca, bc and opposite
\* ab, so that each angle is the angle at its own point: for the points
\* (4,7), (12,9), (8,12) the angles are 37.3, 50.9, 91.8 to one decimal.
C11_LawOfCosines ==
    (t # None /\ AnglesComputed(t)) =>
        /\ LengthsOf(t, t)
        /\ t.alpha = Some(LawOfCosines(t.ab[1], t.ca[1], t.bc[1]))
        /\ t.beta = Some(LawOfCosines(t.bc[1], t.ab[1], t.ca[1]))
        /\ t.gamma = Some(LawOfCosines(t.ca[1], t.bc[1], t.ab[1]))
        /\ ({t.point_a, t.point_b, t.point_c} = TestCorners =>
              /\ Tenths(t.alpha[1]) = TestTenths(t.point_a)
              /\ Tenths(t.beta[1]) = TestTenths(t.point_b)
              /\ Tenths(t.gamma[1]) = TestTenths(t.point_c))
        /\ ({t.point_a, t.point_b, t.point_c} = RightCorners =>
              /\ Tenths(t.alpha[1]) = RightTenths(t.point_a)
              /\ Tenths(t.beta[1]) = RightTenths(t.point_b)
              /\ Tenths(t.gamma[1]) = RightTenths(t.point_c))

\* gamma() has computed the angles of the test triangle: 37.3, 50.9, 91.8
C11_Witness ==
    /\ t # None /\ op = "gamma" /\ before = {}
    /\ t.point_a = Point(FromInt(4), FromInt(7))
    /\ t.point_b = Point(FromInt(12), FromInt(9))
    /\ t.point_c = Point(FromInt(8), FromInt(12))
    /\ ret = t.gamma /\ Tenths(ret[1]) = 918
    /\ Tenths(t.alpha[1]) = 373 /\ Tenths(t.beta[1]) = 509

\* the cross product (b - a) x (c - a): zero when a, b, c are on a line
Cross(a, b, c) ==
    FSub(FMul(FSub(b.x, a.x), FSub(c.y, a.y)),
         FMul(FSub(b.y, a.y), FSub(c.x, a.x)))

\* x < y for finite x and y
FLess(x, y) == IsFin(x) /\ IsFin(y) /\ x.u < y.u

\* the points of tr are pairwise distinct and not on a line, and its side
\* lengths satisfy the strict triangle inequality
NonDegenerate(tr) ==
    /\ tr.point_a # tr.point_b /\ tr.point_b # tr.point_c
    /\ tr.point_c # tr.point_a
    /\ ~FEq(Cross(tr.point_a, tr.point_b, tr.point_c), FromInt(0))
    /\ FLess(tr.ca[1], FAdd(tr.ab[1], tr.bc[1]))
    /\ FLess(tr.ab[1], FAdd(tr.bc[1], tr.ca[1]))
    /\ FLess(tr.bc[1], FAdd(tr.ca[1], tr.ab[1]))

\* alpha + beta + gamma, added left to right
AngleSum(tr) == FAdd(FAdd(tr.alpha[1], tr.beta[1]), tr.gamma[1])

\* |f - 180| <= 1e-3
Near180(f) == IsFin(f) /\ Abs(f.u - 180 * Scale) * 1000 <= Scale

\* C12 as stated: for every Triangle with non-degenerate points the
\* Computed angles satisfy alpha + beta + gamma = 180 within 1e-3 degrees.
C12_Original ==
    (t # None /\ AnglesComputed(t) /\ NonDegenerate(t)) => Near180(AngleSum(t))

\* the Triangle that new_initialized builds on the current points of tr
Eager(tr) == Triangle_new_initialized(tr.point_a, tr.point_b, tr.point_c).self

\* every Computed derived field of tr has the value the formulas give for
\* the current points of tr
NeverStale(tr) == \A f \in Computed(tr, TFields) : tr[f] = Eager(tr)[f]

\* C13 as stated: no operation available to a caller changes point_a,
\* point_b or point_c of a Triangle, so every Computed side length and angle
\* equals the value the formulas give for the current points.
C13_Original ==
    [][t # None =>
          /\ t'.point_a = t.point_a
          /\ t'.point_b = t.point_b
          /\ t'.point_c = t.point_c
          /\ NeverStale(t')]_vars

\* the angles of tr are the law-of-cosines angles of the lengths stored in
\* mid, and tr has the points and the lengths of mid
AnglesFromStored(tr, mid) ==
    /\ tr.point_a = mid.point_a /\ tr.point_b = mid.point_b
    /\ tr.point_c = mid.point_c
    /\ tr.ab = mid.ab /\ tr.bc = mid.bc /\ tr.ca = mid.ca
    /\ tr.alpha = Some(LawOfCosines(mid.ab[1], mid.ca[1], mid.bc[1]))
    /\ tr.beta = Some(LawOfCosines(mid.bc[1], mid.ab[1], mid.ca[1]))
    /\ tr.gamma = Some(LawOfCosines(mid.ca[1], mid.bc[1], mid.ab[1]))

\* C14: Triangle::new returns a Triangle with all six derived fields Unset;
\* Triangle::new_initialized returns one with all six Computed: its init()
\* computes the lengths first, which leaves the angles Unset, and then every
\* angle from the ab, bc, ca already stored.
C14_EagerLengthsThenAngles ==
    /\ (t # None /\ op = "new") => LengthsUnset(t) /\ AnglesUnset(t)
    /\ (t # None /\ op = "new_initialized") =>
          /\ ~panic /\ LengthsComputed(t) /\ AnglesComputed(t)
          /\ LengthsOf(t, t)
          /\ LengthsComputed(Triangle_init_lengths(
                                Triangle_new(t.point_a, t.point_b, t.point_c)))
          /\ AnglesUnset(Triangle_init_lengths(
                                Triangle_new(t.point_a, t.point_b, t.point_c)))
          /\ AnglesFromStored(t, Triangle_init_lengths(
                                Triangle_new(t.point_a, t.point_b, t.point_c)))

\* new_initialized has built a right triangle with its six fields Computed
C14_Witness ==
    /\ t # None /\ op = "new_initialized" /\ ~panic
    /\ t.point_a # t.point_b /\ t.point_b # t.point_c /\ t.point_c # t.point_a
    /\ LengthsComputed(t) /\ AnglesComputed(t)
    /\ t.alpha = Some(FromInt(90)) /\ t.ab = Some(FromInt(MaxCoord))

(***************************************************************************)
(* Further properties of Vector                                            *)
(***************************************************************************)
\* alpha and beta of vec are both Unset or both Computed
AnglesTogether(vec) == (vec.alpha = None) <=> (vec.beta = None)

C16_Original ==
    (v # None /\ v.alpha # None /\ v.beta # None
       /\ FEq(v.point_a.y, v.point_b.y)) =>
        /\ FEq(v.beta[1], FromInt(90))
        /\ FEq(v.alpha[1], FromInt(0))

\* C16 amended: for every Vector whose adjacent = point_a.y - point_b.y is
\* zero, beta = 90 and alpha = 0 when opposite^2 is nonzero (the division
\* by zero gives infinity), and both are NaN when opposite^2 is zero or NaN
\* (0/0), as for point_a == point_b.
C16_ZeroAdjacent ==
    (v # None /\ v.alpha # None /\ v.beta # None
       /\ FSub(v.point_a.y, v.point_b.y) = FromInt(0)) =>
        LET o2 == FPowf2(FSub(v.point_a.x, v.point_b.x))
        IN  /\ (op \in {"alpha", "beta"} => ret = v[op])
            /\ IF ~IsNaN(o2) /\ o2 # FromInt(0)
               THEN /\ FDiv(o2, FromInt(0)) = Inf(1)
                    /\ v.beta[1] = FromInt(90) /\ v.alpha[1] = FromInt(0)
               ELSE IsNaN(v.beta[1]) /\ IsNaN(v.alpha[1])

\* beta() has returned 90 for a Vector along the x axis
C16_Witness ==
    /\ v # None /\ op = "beta" /\ before = {}
    /\ FinitePoint(v.point_a) /\ FinitePoint(v.point_b)
    /\ v.point_a.y = v.point_b.y /\ v.point_a.x.u > v.point_b.x.u + Scale
    /\ ret = Some(FromInt(90)) /\ v.alpha = Some(FromInt(0))

\* C17 as stated: for every Vector with point_a == point_b, length()
\* returns 0 and alpha() and beta() return NaN or an infinity, and no call
\* fails.
C17_Original ==
    (v # None /\ FEq(v.point_a.x, v.point_b.x)
       /\ FEq(v.point_a.y, v.point_b.y)) =>
        /\ ~panic
        /\ (v.length # None => FEq(v.length[1], FromInt(0)))
        /\ (v.alpha # None => ~IsFin(v.alpha[1]))
        /\ (v.beta # None => ~IsFin(v.beta[1]))

\* C17 amended: for every Vector with point_a == point_b, alpha() and
\* beta() return NaN and no call fails; length() returns 0 when the
\* coordinates are finite, and NaN when one is infinite.
C17_CoincidentPoints ==
    (v # None /\ FEq(v.point_a.x, v.point_b.x)
       /\ FEq(v.point_a.y, v.point_b.y)) =>
        /\ ~panic
        /\ (op \in VFields => ret = v[op] /\ ret # None)
        /\ (v.length # None =>
              IF FinitePoint(v.point_a) THEN v.length[1] = FromInt(0)
              ELSE IsNaN(v.length[1]))
        /\ (v.alpha # None => IsNaN(v.alpha[1]))
        /\ (v.beta # None => IsNaN(v.beta[1]))

\* alpha() has returned NaN for a Vector from a finite point to itself,
\* whose length() had returned 0
C17_Witness ==
    /\ v # None /\ v.point_a = v.point_b /\ FinitePoint(v.point_a)
    /\ op = "alpha" /\ before = {"length"} /\ ~panic
    /\ ret # None /\ IsNaN(ret[1]) /\ IsNaN(v.beta[1])
    /\ v.length = Some(FromInt(0)) /\ <<"length", FromInt(0)>> \in returned

\* |f|
FAbs(f) == IF FSign(f) < 0 THEN FNeg(f) ELSE f

\* the angles <<alpha, beta>> that a Vector from a to b computes
AnglesOf(a, b) ==
    <<Vector_set_alpha_beta(Vector_new(a, b)).alpha,
      Vector_set_alpha_beta(Vector_new(a, b)).beta>>

\* C18: the angles of a Vector lose the signs of its legs: alpha and beta
\* of Vector(a, b) are the same values (NaN included) as those of
\* Vector(b, a), as those of the Vectors mirrored in x or in y, and as the
\* angles computed from |opposite| and |adjacent|; beta, when not NaN, lies
\* in [0, 90].
C18_AnglesLoseSign ==
    (v # None /\ v.alpha # None /\ v.beta # None) =>
        /\ <<v.alpha, v.beta>> = AnglesOf(v.point_b, v.point_a)
        /\ <<v.alpha, v.beta>> = AnglesOf(Point(v.point_b.x, v.point_a.y),
                                          Point(v.point_a.x, v.point_b.y))
        /\ <<v.alpha, v.beta>> = AnglesOf(Point(v.point_a.x, v.point_b.y),
                                          Point(v.point_b.x, v.point_a.y))
        /\ v.beta[1] = ToDegrees(FAtan(FDiv(
                 FPowf2(FAbs(FSub(v.point_a.x, v.point_b.x))),
                 FPowf2(FAbs(FSub(v.point_a.y, v.point_b.y))))))
        /\ v.alpha[1] = FSub(FromInt(90), v.beta[1])
        /\ (~IsNaN(v.beta[1]) =>
              IsFin(v.beta[1]) /\ v.beta[1].u >= 0 /\ v.beta[1].u <= 90 * Scale)

\* beta() has computed an angle strictly between 0 and 90 for a Vector
\* whose opposite is negative and whose adjacent is positive
C18_Witness ==
    /\ v # None /\ op = "beta" /\ before = {}
    /\ FinitePoint(v.point_a) /\ FinitePoint(v.point_b)
    /\ v.point_a.x.u < v.point_b.x.u /\ v.point_a.y.u > v.point_b.y.u
    /\ ret = v.beta /\ IsFin(ret[1])
    /\ ret[1].u > 0 /\ ret[1].u < 45 * Scale

(***************************************************************************)
(* Further properties of Triangle                                          *)
(***************************************************************************)
\* C19: once a sequence of accessor calls on Triangle::new(a, b, c) has
\* called alpha(), beta() or gamma(), the Triangle has all six derived
\* fields Computed and equals Triangle::new_initialized(a, b, c) field for
\* field, whatever the order and repetition of the calls; and every
\* accessor returns the value of that field of the eager Triangle.
C19_LazyEqualsEager ==
    t # None =>
        LET eager == Eager(t)
        IN  /\ (t.alpha # None \/ t.beta # None \/ t.gamma # None)
                  => t = eager /\ Computed(t, TFields) = TFields
            /\ op \in TFields => ~panic /\ ret = eager[op]

\* alpha() has computed the angles of a lazily constructed test triangle
\* whose lengths an earlier accessor call had computed
C19_Witness ==
    /\ t # None /\ op = "alpha" /\ before = {"ab", "bc", "ca"}
    /\ {t.point_a, t.point_b, t.point_c} = TestCorners
    /\ Computed(t, TFields) = TFields
    /\ ret = t.alpha /\ IsFin(ret[1]) /\ ret[1].u > 0
    /\ t = Triangle_new_initialized(t.point_a, t.point_b, t.point_c).self

\* C20: ab(), bc() and ca() never change alpha, beta, gamma; an accessor
\* whose own field is already Computed changes no field and returns the
\* stored value; no accessor changes point_a, point_b or point_c.
C20_AccessorFrame ==
    [][(t # None /\ op' \in TFields) =>
          /\ t'.point_a = t.point_a
          /\ t'.point_b = t.point_b
          /\ t'.point_c = t.point_c
          /\ op' \in {"ab", "bc", "ca"} =>
                t'.alpha = t.alpha /\ t'.beta = t.beta /\ t'.gamma = t.gamma
          /\ t[op'] # None => t' = t /\ ret' = t[op']]_vars

\* ca() has been called on a Triangle whose lengths were Computed and
\* whose angles are still Unset
C20_Witness ==
    /\ t # None /\ op = "ca" /\ before = {"ab", "bc", "ca"}
    /\ AnglesUnset(t) /\ LengthsComputed(t)
    /\ ret = t.ca /\ IsFin(ret[1]) /\ ret[1].u > 0

====
